---------------------------- MODULE Spec2Model ----------------------------
(***************************************************************************)
(* A model of the Vaultix SDK's request executor (src/src/client.ts) and   *)
(* of the Vaultix facade built on it (src/src/vaultix.ts).                 *)
(*                                                                         *)
(* The state is the client constructed from a configuration and, per call  *)
(* of VaultixClient.request, the position of that call's async function:   *)
(* awaiting fetch, awaiting response.json(), awaiting the backoff sleep,   *)
(* or settled (resolved or rejected).  One action models one run of the    *)
(* code between two awaits.                                                *)
(***************************************************************************)
EXTENDS Integers, Sequences, FiniteSets, TLC

VARIABLES client, calls, given, seen

vars == <<client, calls, given, seen>>

-----------------------------------------------------------------------------
(* Bounds of the model *)

\* the largest maxRetries a configuration is given
MaxRetriesCfg == 5

-----------------------------------------------------------------------------
(* Program constants: client.ts lines 9-11 *)

DEFAULT_TIMEOUT == 30000

DEFAULT_MAX_RETRIES == 3

\* 'https://console.velon.app/api', as the URL parser reads it
DEFAULT_BASE_URL ==
    [defined |-> TRUE, valid |-> TRUE,
     origin |-> "https://console.velon.app", pathname |-> <<"api">>]

-----------------------------------------------------------------------------
(* Values *)

\* a number-typed optional field of VaultixConfig: undefined, or a number
UndefinedNum == [defined |-> FALSE, n |-> 0]

Num(n) == [defined |-> TRUE, n |-> n]

\* secret keys, as sequences of characters
KeyEmpty == <<>>

KeyPublishable == <<"p","k","_","t","e","s","t","_","a">>

KeyOther == <<"s","k","_","a","b","c">>

KeyLive == <<"s","k","_","l","i","v","e","_","a">>

KeyTest == <<"s","k","_","t","e","s","t","_","a","b","c">>

SecretKeys == {KeyEmpty, KeyPublishable, KeyOther, KeyLive, KeyTest}

PrefixSk == <<"s","k","_">>

PrefixLive == <<"s","k","_","l","i","v","e","_">>

PrefixTest == <<"s","k","_","t","e","s","t","_">>

\* String.prototype.startsWith
StartsWith(s, p) == Len(s) >= Len(p) /\ SubSeq(s, 1, Len(p)) = p

\* base URLs a configuration is given: none, the documented default, a
\* host without a path, and a string that is no URL
UndefinedUrl ==
    [defined |-> FALSE, valid |-> FALSE, origin |-> "", pathname |-> <<>>]

SandboxBaseUrl ==
    [defined |-> TRUE, valid |-> TRUE,
     origin |-> "https://sandbox.example", pathname |-> <<>>]

BadBaseUrl ==
    [defined |-> TRUE, valid |-> FALSE, origin |-> "not a url", pathname |-> <<>>]

\* the empty string: defined, but falsy
EmptyBaseUrl ==
    [defined |-> TRUE, valid |-> FALSE, origin |-> "", pathname |-> <<>>]

BaseUrls == {UndefinedUrl, EmptyBaseUrl, DEFAULT_BASE_URL, SandboxBaseUrl, BadBaseUrl}

Timeouts == {UndefinedNum, Num(0), Num(5000)}

MaxRetriesValues == {UndefinedNum} \cup {Num(n) : n \in 0..MaxRetriesCfg}

\* VaultixConfig (resources/customers.ts lines 79-88)
Configs ==
    [secretKey : SecretKeys, baseUrl : BaseUrls,
     timeout : Timeouts, maxRetries : MaxRetriesValues]

\* no configuration recorded
NoConfig ==
    [secretKey |-> <<>>, baseUrl |-> UndefinedUrl,
     timeout |-> UndefinedNum, maxRetries |-> UndefinedNum]

-----------------------------------------------------------------------------
(* VaultixClient: construction and getters (client.ts lines 31-57) *)

NoClient ==
    [state |-> "none", secretKey |-> <<>>, baseUrl |-> UndefinedUrl,
     timeout |-> 0, maxRetries |-> 0, error |-> ""]

\* constructor, line 38: !config.secretKey
KeyMissing(key) == key = <<>>

\* constructor, line 42: !config.secretKey.startsWith('sk_')
KeyRejected(key) == ~StartsWith(key, PrefixSk)

\* constructor, line 47: config.baseUrl || DEFAULT_BASE_URL
BaseUrlOf(config) ==
    IF config.baseUrl.defined /\ config.baseUrl.origin # ""
    THEN config.baseUrl ELSE DEFAULT_BASE_URL

\* constructor, line 48: config.timeout || DEFAULT_TIMEOUT (0 is falsy)
TimeoutOf(config) ==
    IF config.timeout.defined /\ config.timeout.n # 0
    THEN config.timeout.n ELSE DEFAULT_TIMEOUT

\* maxRetries defaulted with || as the timeout is: 0 is replaced by the default
MaxRetriesOf_OrDefault(config) ==
    IF config.maxRetries.defined /\ config.maxRetries.n # 0
    THEN config.maxRetries.n ELSE DEFAULT_MAX_RETRIES

\* constructor, line 49: config.maxRetries ?? DEFAULT_MAX_RETRIES
MaxRetriesOf(config) ==
    IF config.maxRetries.defined THEN config.maxRetries.n ELSE DEFAULT_MAX_RETRIES

\* new VaultixClient(config): the object built, or the Error thrown
NewVaultixClient(config) ==
    IF KeyMissing(config.secretKey)
    THEN [NoClient EXCEPT !.state = "threw", !.error = "Secret key is required"]
    ELSE IF KeyRejected(config.secretKey)
    THEN [NoClient EXCEPT !.state = "threw",
            !.error = "Invalid secret key format. Must start with sk_live_ or sk_test_"]
    ELSE [state |-> "constructed", secretKey |-> config.secretKey,
          baseUrl |-> BaseUrlOf(config), timeout |-> TimeoutOf(config),
          maxRetries |-> MaxRetriesOf(config), error |-> ""]

\* get isTestMode, lines 55-57
IsTestMode(c) == StartsWith(c.secretKey, PrefixTest)

\* Vaultix.isTestMode, vaultix.ts lines 113-115: this.client.isTestMode
VaultixIsTestMode(c) == IsTestMode(c)

-----------------------------------------------------------------------------
(* Inputs of a call and answers of the server *)

Methods == {"GET", "POST", "PUT", "DELETE"}

\* a path template's segments: '/v1/charges'
Paths == {<<"v1", "charges">>}

\* a payload value, by what String() and JSON.stringify make of it
PlainValue == [kind |-> "number", text |-> "10"]

UndefinedValue == [kind |-> "undefined", text |-> "undefined"]

\* null: left out of the query, kept by JSON.stringify as null
NullValue == [kind |-> "null", text |-> "null"]

\* a BigInt: String() gives its digits, JSON.stringify throws a TypeError
BigIntValue == [kind |-> "bigint", text |-> "5000"]

\* Object.create(null): JSON.stringify gives {}, String() throws a TypeError
NullProtoValue == [kind |-> "nullproto", text |-> "{}"]

NoData == [given |-> FALSE, entries |-> <<>>]

Data(entries) == [given |-> TRUE, entries |-> entries]

Payloads ==
    {NoData,
     Data(<<[key |-> "limit", value |-> PlainValue],
            [key |-> "starting_after", value |-> UndefinedValue],
            [key |-> "customer", value |-> NullValue]>>),
     Data(<<[key |-> "amount", value |-> BigIntValue]>>),
     Data(<<[key |-> "metadata", value |-> NullProtoValue]>>)}

\* HTTP statuses the server answers with
Statuses == {200, 404, 429, 500, 503}

\* the error object of a response body (VaultixError), or its absence
NoErr ==
    [defined |-> FALSE, type |-> "", code |-> "", message |-> "",
     param |-> "undefined", doc_url |-> "undefined"]

ErrInvalid ==
    [defined |-> TRUE, type |-> "invalid_request_error", code |-> "parameter_invalid",
     message |-> "amount deve ser pelo menos 100", param |-> "amount",
     doc_url |-> "undefined"]

ErrRate ==
    [defined |-> TRUE, type |-> "rate_limit_error", code |-> "rate_limited",
     message |-> "Too many requests", param |-> "undefined",
     doc_url |-> "https://docs/rate-limits"]

\* response bodies: not JSON (empty, HTML), the JSON value null, a JSON object
NoBody == [kind |-> "none", error |-> NoErr]

Unparseable == [kind |-> "unparseable", error |-> NoErr]

JsonNull == [kind |-> "null", error |-> NoErr]

JsonObject(e) == [kind |-> "object", error |-> e]

Bodies ==
    {Unparseable, JsonNull, JsonObject(NoErr), JsonObject(ErrInvalid), JsonObject(ErrRate)}

-----------------------------------------------------------------------------
(* Errors *)

NoError ==
    [class |-> "none", type |-> "", code |-> "", message |-> "", ms |-> 0,
     param |-> "undefined", docUrl |-> "undefined", statusCode |-> UndefinedNum]

\* an Error that is no VaultixAPIError: a TypeError, a SyntaxError, an AbortError
JsError(name, message) == [NoError EXCEPT !.class = name, !.message = message]

\* new VaultixAPIError(error, statusCode), client.ts lines 13-29
VaultixAPIError(error, statusCode) ==
    [class |-> "VaultixAPIError", type |-> error.type, code |-> error.code,
     message |-> error.message, ms |-> error.ms, param |-> error.param,
     docUrl |-> error.doc_url, statusCode |-> Num(statusCode)]

\* a VaultixError literal of client.ts; ms is the number its message embeds
ErrorLiteral(type, code, message, ms) ==
    [type |-> type, code |-> code, message |-> message, ms |-> ms,
     param |-> "undefined", doc_url |-> "undefined"]

\* json.error as the constructor reads it
BodyError(e) ==
    [type |-> e.type, code |-> e.code, message |-> e.message, ms |-> 0,
     param |-> e.param, doc_url |-> e.doc_url]

-----------------------------------------------------------------------------
(* VaultixClient.request (client.ts lines 62-142) *)

CallIds == {1, 2}

NoUrl == [origin |-> "", pathname |-> <<>>, search |-> <<>>]

\* the argument of transactions.summary: left out, a period as the signature
\* has it, or an object { period } as the README has it (README.md lines 241-245)
NoPeriod == [form |-> "undefined", period |-> ""]

PeriodString(p) == [form |-> "string", period |-> p]

PeriodObject(p) == [form |-> "object", period |-> p]

IdleCall ==
    [pc |-> "idle", method |-> "GET", path |-> <<>>, data |-> NoData,
     op |-> "request", asked |-> NoPeriod, retryCount |-> 0, url |-> NoUrl, timer |-> "none",
     attempts |-> 0, inflight |-> 0, requests |-> <<>>,
     delays |-> <<>>, last |-> "none", status |-> 0, body |-> NoBody,
     outcome |-> "pending", value |-> NoBody, error |-> NoError]

\* response.ok
Ok(status) == status >= 200 /\ status <= 299

RECURSIVE Pow2(_)
Pow2(n) == IF n = 0 THEN 1 ELSE 2 * Pow2(n - 1)

Min(a, b) == IF a <= b THEN a ELSE b

\* shouldRetry without lines 173-175: the status alone decides
shouldRetry_NoBudgetTest(statusCode, retryCount, maxRetries) ==
    statusCode >= 500 \/ statusCode = 429

\* shouldRetry with the budget test off by one (> for >=)
shouldRetry_OffByOne(statusCode, retryCount, maxRetries) ==
    IF retryCount > maxRetries THEN FALSE
    ELSE statusCode >= 500 \/ statusCode = 429

\* shouldRetry, lines 172-177
shouldRetry(statusCode, retryCount, maxRetries) ==
    IF retryCount >= maxRetries THEN FALSE
    ELSE statusCode >= 500 \/ statusCode = 429

\* getRetryDelay without the cap of Math.min
getRetryDelay_NoCap(retryCount) == 1000 * Pow2(retryCount)

\* getRetryDelay, lines 179-182
getRetryDelay(retryCount) == Min(1000 * Pow2(retryCount), 10000)

\* new URL(path, this.baseUrl), line 68: an absolute path replaces the base's
NewURL(path, base) ==
    IF base.valid
    THEN [ok |-> TRUE,
          url |-> [origin |-> base.origin, pathname |-> path, search |-> <<>>]]
    ELSE [ok |-> FALSE, url |-> NoUrl]

\* lines 71-77: the entries appended to url.searchParams
RECURSIVE QueryParams(_)
QueryParams(entries) ==
    IF entries = <<>> THEN <<>>
    ELSE LET e == Head(entries)
         IN  IF e.value.kind \in {"undefined", "null"}
             THEN QueryParams(Tail(entries))
             ELSE <<[key |-> e.key, value |-> e.value.text]>>
                    \o QueryParams(Tail(entries))

\* line 74: String(value) throws for a value that has no primitive form
StringThrows(entries) ==
    \E i \in 1..Len(entries) : entries[i].value.kind = "nullproto"

\* line 90: JSON.stringify(data) throws for a BigInt
StringifyThrows(entries) ==
    \E i \in 1..Len(entries) : entries[i].value.kind = "bigint"

\* line 90: JSON.stringify(data): the members of the body, undefined ones left out
RECURSIVE JsonMembers(_)
JsonMembers(entries) ==
    IF entries = <<>> THEN <<>>
    ELSE LET e == Head(entries)
         IN  IF e.value.kind = "undefined"
             THEN JsonMembers(Tail(entries))
             ELSE <<[key |-> e.key, value |-> e.value.text]>>
                    \o JsonMembers(Tail(entries))

NoRequestBody == [sent |-> FALSE, members |-> <<>>]

\* 'Bearer '
Bearer == <<"B", "e", "a", "r", "e", "r", " ">>

\* the headers with the bare key as the Authorization value
Headers_NoBearerPrefix(cl) ==
    [authorization |-> cl.secretKey,
     contentType |-> "application/json",
     userAgent |-> "@vaultix/sdk/1.0.0"]

\* the headers of lines 85-89
Headers(cl) ==
    [authorization |-> Bearer \o cl.secretKey,
     contentType |-> "application/json",
     userAgent |-> "@vaultix/sdk/1.0.0"]

\* the request with the payload serialized as body for every method, GET included
FetchRequest_BodyWheneverData(r, cl) ==
    [method |-> r.method, url |-> r.url, headers |-> Headers(cl),
     body |-> IF r.data.given
              THEN [sent |-> TRUE, members |-> JsonMembers(r.data.entries)]
              ELSE NoRequestBody]

\* fetch(url.toString(), init), lines 83-92: the request handed to fetch
FetchRequest(r, cl) ==
    [method |-> r.method, url |-> r.url, headers |-> Headers(cl),
     body |-> IF r.method # "GET" /\ r.data.given
              THEN [sent |-> TRUE, members |-> JsonMembers(r.data.entries)]
              ELSE NoRequestBody]

\* the call's promise rejects with e
Reject(r, e) == [r EXCEPT !.pc = "settled", !.outcome = "rejected", !.error = e]

\* the call's promise resolves with the parsed body, line 113
Resolve(r, json) == [r EXCEPT !.pc = "settled", !.outcome = "resolved", !.value = json]

\* await this.sleep(getRetryDelay(retryCount)), lines 101-102 and 131-132
Sleep(r) ==
    [r EXCEPT !.pc = "sleeping", !.delays = Append(@, getRetryDelay(r.retryCount))]

\* clearTimeout(timeoutId), lines 94 and 115
ClearTimeout(r) == [r EXCEPT !.timer = IF @ = "armed" THEN "cleared" ELSE @]

\* the catch block without its AbortError branch (lines 121-127 left out)
Catch_NoAbortBranch(r0, error, cl) ==
    LET r == ClearTimeout(r0)
    IN  IF error.class = "VaultixAPIError" THEN Reject(r, error)
        ELSE IF r.retryCount < cl.maxRetries THEN Sleep(r)
        ELSE Reject(r, VaultixAPIError(
                 ErrorLiteral("api_error", "network_error", error.message, 0), 0))

\* the catch block with the retry test moved before the AbortError branch
Catch_RetryBeforeAbort(r0, error, cl) ==
    LET r == ClearTimeout(r0)
    IN  IF error.class = "VaultixAPIError" THEN Reject(r, error)
        ELSE IF r.retryCount < cl.maxRetries THEN Sleep(r)
        ELSE IF error.class = "AbortError"
        THEN Reject(r, VaultixAPIError(
                 ErrorLiteral("api_error", "timeout", "Request timed out after ${ms}ms",
                              cl.timeout), 408))
        ELSE Reject(r, VaultixAPIError(
                 ErrorLiteral("api_error", "network_error", error.message, 0), 0))

\* the catch block sleeping first and testing the budget afterwards: the final
\* network_error is thrown after one more sleep
Catch_SleepsBeforeThrow(r0, error, cl) ==
    LET r == ClearTimeout(r0)
    IN  IF error.class = "VaultixAPIError" THEN Reject(r, error)
        ELSE IF error.class = "AbortError"
        THEN Reject(r, VaultixAPIError(
                 ErrorLiteral("api_error", "timeout", "Request timed out after ${ms}ms",
                              cl.timeout), 408))
        ELSE IF r.retryCount < cl.maxRetries THEN Sleep(r)
        ELSE Reject([r EXCEPT !.delays = Append(@, getRetryDelay(r.retryCount))],
                    VaultixAPIError(
                        ErrorLiteral("api_error", "network_error", error.message, 0), 0))

\* the catch block without the retry of lines 130-134: a failure is thrown at once
Catch_NoNetworkRetry(r0, error, cl) ==
    LET r == ClearTimeout(r0)
    IN  IF error.class = "VaultixAPIError" THEN Reject(r, error)
        ELSE IF error.class = "AbortError"
        THEN Reject(r, VaultixAPIError(
                 ErrorLiteral("api_error", "timeout", "Request timed out after ${ms}ms",
                              cl.timeout), 408))
        ELSE Reject(r, VaultixAPIError(
                 ErrorLiteral("api_error", "network_error", error.message, 0), 0))

\* the catch block, lines 114-141
Catch(r0, error, cl) ==
    LET r == ClearTimeout(r0)
    IN  IF error.class = "VaultixAPIError" THEN Reject(r, error)
        ELSE IF error.class = "AbortError"
        THEN Reject(r, VaultixAPIError(
                 ErrorLiteral("api_error", "timeout", "Request timed out after ${ms}ms",
                              cl.timeout), 408))
        ELSE IF r.retryCount < cl.maxRetries THEN Sleep(r)
        ELSE Reject(r, VaultixAPIError(
                 ErrorLiteral("api_error", "network_error", error.message, 0), 0))

\* one invocation of request up to its first await, lines 68-92
Enter(r0, cl) ==
    LET r == [r0 EXCEPT !.last = "none", !.status = 0, !.body = NoBody]
        u == NewURL(r.path, cl.baseUrl)
        query == r.method = "GET" /\ r.data.given
        hasBody == r.method # "GET" /\ r.data.given
    IN  IF ~u.ok THEN Reject(r, JsError("TypeError", "Invalid URL"))
        ELSE IF query /\ StringThrows(r.data.entries)
        THEN Reject(r, JsError("TypeError", "Cannot convert object to primitive value"))
        ELSE LET armed ==
                   [r EXCEPT !.timer = "armed",
                       !.url = [u.url EXCEPT !.search =
                                  IF query THEN QueryParams(r.data.entries) ELSE <<>>]]
             IN  IF hasBody /\ StringifyThrows(r.data.entries)
                 THEN Catch([armed EXCEPT !.last = "stringify"],
                            JsError("TypeError", "Do not know how to serialize a BigInt"), cl)
                 ELSE [armed EXCEPT !.pc = "fetching", !.attempts = @ + 1,
                                    !.inflight = @ + 1,
                                    !.requests = Append(@, FetchRequest(armed, cl))]

\* lines 96-113 without the test of response.ok: every parsed body is returned
AfterJson_NoOkCheck(r0, body, cl) ==
    LET r == [r0 EXCEPT !.body = body]
    IN  IF body.kind = "unparseable"
        THEN Catch(r, JsError("SyntaxError", "Unexpected end of JSON input"), cl)
        ELSE Resolve(r, body)

\* lines 96-113 with the retry started at once: no await of this.sleep
AfterJson_RetryWithoutSleep(r0, body, cl) ==
    LET r == [r0 EXCEPT !.body = body]
    IN  IF body.kind = "unparseable"
        THEN Catch(r, JsError("SyntaxError", "Unexpected end of JSON input"), cl)
        ELSE IF ~Ok(r.status)
        THEN IF shouldRetry(r.status, r.retryCount, cl.maxRetries)
             THEN Enter([r EXCEPT !.retryCount = @ + 1,
                                  !.delays = Append(@, getRetryDelay(r.retryCount))], cl)
             ELSE Reject(ClearTimeout(r), VaultixAPIError(
                        IF body.error.defined THEN BodyError(body.error)
                        ELSE ErrorLiteral("api_error", "unknown_error",
                                          "An unknown error occurred", 0),
                        r.status))
        ELSE Resolve(r, body)

\* line 96 onwards: response.json() has settled with the body read
AfterJson(r0, body, cl) ==
    LET r == [r0 EXCEPT !.body = body]
    IN  IF body.kind = "unparseable"
        THEN Catch(r, JsError("SyntaxError", "Unexpected end of JSON input"), cl)
        ELSE IF ~Ok(r.status)
        THEN IF shouldRetry(r.status, r.retryCount, cl.maxRetries) THEN Sleep(r)
             ELSE IF body.kind = "null"
             THEN Catch(r, JsError("TypeError", "Cannot read properties of null"), cl)
             ELSE Catch(r, VaultixAPIError(
                        IF body.error.defined THEN BodyError(body.error)
                        ELSE ErrorLiteral("api_error", "unknown_error",
                                          "An unknown error occurred", 0),
                        r.status), cl)
        ELSE Resolve(r, body)

-----------------------------------------------------------------------------
(* Actions *)

Init ==
    /\ client = NoClient
    /\ calls = [c \in CallIds |-> IdleCall]
    /\ given = NoConfig
    /\ seen = [c \in CallIds |-> {}]

\* new VaultixClient(config) / new Vaultix(config)
Construct(config) ==
    /\ client.state = "none"
    /\ client' = NewVaultixClient(config)
    /\ UNCHANGED <<calls, given>>

\* client.request(method, path, data): retryCount = 0 (line 66)
Request(c, method, path, data) ==
    /\ client.state = "constructed"
    /\ calls[c].pc \in {"idle", "settled"}
    /\ calls' = [calls EXCEPT ![c] =
                   Enter([IdleCall EXCEPT !.method = method, !.path = path,
                                          !.data = data], client)]
    /\ UNCHANGED <<client, given>>

\* fetch resolves with a Response of this status, without the clearTimeout of
\* line 94: the timer stays armed
FetchResolves_NoClear(c, status) ==
    /\ calls[c].pc = "fetching"
    /\ calls' = [calls EXCEPT ![c] =
                   [@ EXCEPT !.pc = "json", !.last = "response", !.status = status]]
    /\ UNCHANGED <<client, given>>

\* fetch resolves with a Response of this status; line 94 clears the timer
FetchResolves(c, status) ==
    /\ calls[c].pc = "fetching"
    /\ calls' = [calls EXCEPT ![c] =
                   [ClearTimeout(@) EXCEPT !.pc = "json", !.last = "response",
                                           !.status = status]]
    /\ UNCHANGED <<client, given>>

\* fetch rejects: the transport failed
FetchRejects(c) ==
    /\ calls[c].pc = "fetching"
    /\ calls' = [calls EXCEPT ![c] =
                   Catch([@ EXCEPT !.last = "transport", !.inflight = 0],
                         JsError("TypeError", "fetch failed"), client)]
    /\ UNCHANGED <<client, given>>

\* the timer fires with one AbortController kept on the client and shared by
\* its calls: every fetch in flight is aborted
TimeoutFires_SharedController(c) ==
    /\ calls[c].pc = "fetching"
    /\ calls[c].timer = "armed"
    /\ calls' = [d \in CallIds |->
                   IF calls[d].pc = "fetching"
                   THEN Catch([calls[d] EXCEPT !.last = "abort", !.timer = "fired",
                                               !.inflight = 0],
                              JsError("AbortError", "This operation was aborted"), client)
                   ELSE calls[d]]
    /\ UNCHANGED <<client, given>>

\* the timer of line 80 fires: controller.abort() rejects fetch with an AbortError
TimeoutFires(c) ==
    /\ calls[c].pc = "fetching"
    /\ calls[c].timer = "armed"
    /\ calls' = [calls EXCEPT ![c] =
                   Catch([@ EXCEPT !.last = "abort", !.timer = "fired", !.inflight = 0],
                         JsError("AbortError", "This operation was aborted"), client)]
    /\ UNCHANGED <<client, given>>

\* response.json() settles, line 96
JsonSettles(c, body) ==
    /\ calls[c].pc = "json"
    /\ calls' = [calls EXCEPT ![c] = AfterJson([@ EXCEPT !.inflight = 0], body, client)]
    /\ UNCHANGED <<client, given>>

\* the backoff sleep ends and the retry is made without the payload:
\* this.request(method, path, undefined, retryCount + 1)
SleepElapses_DropsData(c) ==
    /\ calls[c].pc = "sleeping"
    /\ calls' = [calls EXCEPT ![c] =
                   Enter([@ EXCEPT !.retryCount = @ + 1, !.data = NoData], client)]
    /\ UNCHANGED <<client, given>>

\* the backoff sleep ends and request is called again without its fourth
\* argument: this.request(method, path, data), so retryCount is 0 again
SleepElapses_DropsRetryCount(c) ==
    /\ calls[c].pc = "sleeping"
    /\ calls' = [calls EXCEPT ![c] = Enter([@ EXCEPT !.retryCount = 0], client)]
    /\ UNCHANGED <<client, given>>

\* the backoff sleep ends, with the retry budget kept as a countdown on the
\* client: each retry takes one from this.maxRetries
SleepElapses_ConsumesBudget(c) ==
    /\ calls[c].pc = "sleeping"
    /\ calls' = [calls EXCEPT ![c] =
                   Enter([@ EXCEPT !.retryCount = @ + 1], client)]
    /\ client' = [client EXCEPT !.maxRetries = IF @ > 0 THEN @ - 1 ELSE 0]
    /\ UNCHANGED given

\* the backoff sleep ends: this.request(method, path, data, retryCount + 1)
SleepElapses(c) ==
    /\ calls[c].pc = "sleeping"
    /\ calls' = [calls EXCEPT ![c] =
                   Enter([@ EXCEPT !.retryCount = @ + 1], client)]
    /\ UNCHANGED <<client, given>>

\* the calls the sequential specification makes
MainCalls == {1}

Next ==
    \/ \E config \in Configs : Construct(config) /\ UNCHANGED seen
    \/ \E c \in MainCalls, m \in Methods, p \in Paths, d \in Payloads :
         Request(c, m, p, d) /\ UNCHANGED seen
    \/ \E c \in MainCalls, s \in Statuses : FetchResolves(c, s) /\ UNCHANGED seen
    \/ \E c \in MainCalls : FetchRejects(c) /\ UNCHANGED seen
    \/ \E c \in MainCalls : TimeoutFires(c) /\ UNCHANGED seen
    \/ \E c \in MainCalls, b \in Bodies : JsonSettles(c, b) /\ UNCHANGED seen
    \/ \E c \in MainCalls : SleepElapses(c) /\ UNCHANGED seen

Spec == Init /\ [][Next]_vars

-----------------------------------------------------------------------------
(* Construction alone, with the configuration given kept for comparison *)

\* new VaultixClient(config), the argument remembered
ConstructFrom(config) ==
    /\ client.state = "none"
    /\ client' = NewVaultixClient(config)
    /\ given' = config
    /\ UNCHANGED calls

NextCtor == \E config \in Configs : ConstructFrom(config) /\ UNCHANGED seen

SpecCtor == Init /\ [][NextCtor]_vars

-----------------------------------------------------------------------------
(* Two calls made concurrently on one client *)

\* the largest maxRetries of a client that is called concurrently
MaxRetriesConc == 2

ConcConfigs ==
    {[secretKey |-> KeyTest, baseUrl |-> UndefinedUrl, timeout |-> UndefinedNum,
      maxRetries |-> Num(n)] : n \in 0..MaxRetriesConc}

ConcMethods == {"GET", "POST"}

NextConc ==
    \/ \E config \in ConcConfigs : Construct(config) /\ UNCHANGED seen
    \/ \E c \in CallIds, m \in ConcMethods, p \in Paths : Request(c, m, p, NoData) /\ UNCHANGED seen
    \/ \E c \in CallIds, s \in Statuses : FetchResolves(c, s) /\ UNCHANGED seen
    \/ \E c \in CallIds : FetchRejects(c) /\ UNCHANGED seen
    \/ \E c \in CallIds : TimeoutFires(c) /\ UNCHANGED seen
    \/ \E c \in CallIds, b \in Bodies : JsonSettles(c, b) /\ UNCHANGED seen
    \/ \E c \in CallIds : SleepElapses(c) /\ UNCHANGED seen

SpecConc == Init /\ [][NextConc]_vars

-----------------------------------------------------------------------------
(* The resource classes: each method is one call of a client helper *)

\* get/post/put/delete, client.ts lines 147-170: the HTTP method of a helper
HelperMethod(via) ==
    CASE via = "get" -> "GET"
      [] via = "post" -> "POST"
      [] via = "put" -> "PUT"
      [] via = "delete" -> "DELETE"

\* one resource method: the helper it calls, its path template (segments, with
\* {id} for the interpolated identifier) and what it passes as second argument
Op(key, via, template, arg) ==
    [key |-> key, via |-> via, method |-> HelperMethod(via),
     template |-> template, arg |-> arg]

\* Charges with capture posting to the cancel endpoint
ChargesOps_CaptureCancels ==
    {Op("charges.create", "post", <<"v1", "charges">>, "params"),
     Op("charges.retrieve", "get", <<"v1", "charges", "{id}">>, "none"),
     Op("charges.list", "get", <<"v1", "charges">>, "params"),
     Op("charges.capture", "post", <<"v1", "charges", "{id}", "cancel">>, "params"),
     Op("charges.cancel", "post", <<"v1", "charges", "{id}", "cancel">>, "none")}

ChargesOps ==
    {Op("charges.create", "post", <<"v1", "charges">>, "params"),
     Op("charges.retrieve", "get", <<"v1", "charges", "{id}">>, "none"),
     Op("charges.list", "get", <<"v1", "charges">>, "params"),
     Op("charges.capture", "post", <<"v1", "charges", "{id}", "capture">>, "params"),
     Op("charges.cancel", "post", <<"v1", "charges", "{id}", "cancel">>, "none")}

CustomersOps ==
    {Op("customers.create", "post", <<"v1", "customers">>, "params"),
     Op("customers.retrieve", "get", <<"v1", "customers", "{id}">>, "none"),
     Op("customers.update", "put", <<"v1", "customers", "{id}">>, "params"),
     Op("customers.delete", "delete", <<"v1", "customers", "{id}">>, "none"),
     Op("customers.list", "get", <<"v1", "customers">>, "params")}

TokensOps ==
    {Op("tokens.create", "post", <<"v1", "tokens">>, "params"),
     Op("tokens.retrieve", "get", <<"v1", "tokens", "{id}">>, "none")}

SandboxOps ==
    {Op("sandbox.payCharge", "post", <<"v1", "sandbox", "charges", "{id}", "pay">>, "none"),
     Op("sandbox.failCharge", "post", <<"v1", "sandbox", "charges", "{id}", "fail">>, "params"),
     Op("sandbox.expireCharge", "post", <<"v1", "sandbox", "charges", "{id}", "expire">>, "none"),
     Op("sandbox.succeedRefund", "post", <<"v1", "sandbox", "refunds", "{id}", "succeed">>, "none"),
     Op("sandbox.testWebhook", "post", <<"v1", "sandbox", "webhooks", "test">>, "params"),
     Op("sandbox.listTestCards", "get", <<"v1", "sandbox", "test-cards">>, "none")}

RefundsOps ==
    {Op("refunds.create", "post", <<"v1", "refunds">>, "params"),
     Op("refunds.retrieve", "get", <<"v1", "refunds", "{id}">>, "none"),
     Op("refunds.list", "get", <<"v1", "refunds">>, "params")}

BalanceOps ==
    {Op("balance.retrieve", "get", <<"v1", "balance">>, "none"),
     Op("balance.listTransactions", "get", <<"v1", "balance", "transactions">>, "params")}

PaymentLinksOps ==
    {Op("paymentLinks.create", "post", <<"v1", "payment-links">>, "params"),
     Op("paymentLinks.retrieve", "get", <<"v1", "payment-links", "{id}">>, "none"),
     Op("paymentLinks.list", "get", <<"v1", "payment-links">>, "params"),
     Op("paymentLinks.deactivate", "post",
        <<"v1", "payment-links", "{id}", "deactivate">>, "none"),
     Op("paymentLinks.listPayments", "get",
        <<"v1", "payment-links", "{id}", "payments">>, "params")}

PayoutsOps ==
    {Op("payouts.create", "post", <<"v1", "payouts">>, "params"),
     Op("payouts.retrieve", "get", <<"v1", "payouts", "{id}">>, "none"),
     Op("payouts.list", "get", <<"v1", "payouts">>, "params"),
     Op("payouts.cancel", "post", <<"v1", "payouts", "{id}", "cancel">>, "none")}

ProductsOps ==
    {Op("products.create", "post", <<"v1", "products">>, "params"),
     Op("products.retrieve", "get", <<"v1", "products", "{id}">>, "none"),
     Op("products.list", "get", <<"v1", "products">>, "params"),
     Op("products.update", "put", <<"v1", "products", "{id}">>, "params"),
     Op("products.delete", "delete", <<"v1", "products", "{id}">>, "none")}

OrdersOps ==
    {Op("orders.retrieve", "get", <<"v1", "orders", "{id}">>, "params"),
     Op("orders.list", "get", <<"v1", "orders">>, "params"),
     Op("orders.listItems", "get", <<"v1", "orders", "{id}", "items">>, "none")}

TransactionsOps ==
    {Op("transactions.retrieve", "get", <<"v1", "transactions", "{id}">>, "none"),
     Op("transactions.list", "get", <<"v1", "transactions">>, "params"),
     Op("transactions.summary", "get", <<"v1", "transactions", "summary">>, "period")}

\* the resources of a Vaultix instance, vaultix.ts lines 96-107
Operations ==
    ChargesOps \cup CustomersOps \cup TokensOps \cup SandboxOps \cup RefundsOps
      \cup BalanceOps \cup PaymentLinksOps \cup PayoutsOps \cup ProductsOps
      \cup OrdersOps \cup TransactionsOps

OpOf(key) == CHOOSE o \in Operations : o.key = key

\* identifiers a caller passes; they are interpolated as they are
Ids == {"ch_1", "summary"}

\* `/v1/charges/${id}/capture`: the template with the identifier put in
PathOf(o, id) ==
    [i \in 1..Len(o.template) |->
        IF o.template[i] = "{id}" THEN id ELSE o.template[i]]

\* the params argument of a resource method: left out, or given
ResParams ==
    {NoData,
     Data(<<[key |-> "limit", value |-> PlainValue],
            [key |-> "starting_after", value |-> UndefinedValue]>>)}

\* { period } of transactions.summary, with its default '30d'
PeriodData == Data(<<[key |-> "period", value |-> [kind |-> "string", text |-> "30d"]]>>)

\* '24h' | '7d' | '30d' | '90d'
Periods == {"24h", "7d", "30d", "90d"}

\* period = '30d': the default takes the place of an argument left out
SummaryParam(arg) == IF arg.form = "undefined" THEN PeriodString("30d") ELSE arg

\* { period }: the value of the one entry, by what String() makes of it
PeriodValue(arg) ==
    IF arg.form = "string" THEN [kind |-> "string", text |-> arg.period]
    ELSE [kind |-> "object", text |-> "[object Object]"]

SummaryData(arg) == Data(<<[key |-> "period", value |-> PeriodValue(SummaryParam(arg))]>>)

SummaryArgs == {PeriodString(p) : p \in Periods} \cup {PeriodObject(p) : p \in Periods}

\* the second argument handed to the helper
DataOf(o, params) ==
    CASE o.arg = "params" -> params
      [] o.arg = "none" -> NoData
      [] o.arg = "period" -> PeriodData

\* the eleven resource properties of a Vaultix instance, vaultix.ts lines 96-106
Resources ==
    {"charges", "customers", "tokens", "refunds", "balance", "paymentLinks",
     "payouts", "sandbox", "products", "orders", "transactions"}

\* the resource a method belongs to
ResourceOf(o) ==
    CASE o \in ChargesOps -> "charges"
      [] o \in CustomersOps -> "customers"
      [] o \in TokensOps -> "tokens"
      [] o \in RefundsOps -> "refunds"
      [] o \in BalanceOps -> "balance"
      [] o \in PaymentLinksOps -> "paymentLinks"
      [] o \in PayoutsOps -> "payouts"
      [] o \in SandboxOps -> "sandbox"
      [] o \in ProductsOps -> "products"
      [] o \in OrdersOps -> "orders"
      [] o \in TransactionsOps -> "transactions"

\* the sandbox resource wired to a client of its own, pointed at a sandbox host
ClientOf_SandboxOwnClient(resource) ==
    IF resource = "sandbox" THEN [client EXCEPT !.baseUrl = SandboxBaseUrl] ELSE client

\* the client a resource was constructed with: new Charges(this.client), ...
ClientOf(resource) == client

\* a resource method that refuses client-side unless the key is a test key
ResourceCall_SandboxGuard(c, o, id, params) ==
    /\ client.state = "constructed"
    /\ calls[c].pc \in {"idle", "settled"}
    /\ LET r == [IdleCall EXCEPT !.op = o.key, !.method = o.method,
                                 !.path = PathOf(o, id), !.data = DataOf(o, params)]
       IN  calls' = [calls EXCEPT ![c] =
                       IF o \in SandboxOps /\ ~IsTestMode(client)
                       THEN Reject(r, JsError("Error", "Sandbox requires a test key"))
                       ELSE Enter(r, client)]
    /\ UNCHANGED <<client, given>>

\* a resource method: return this.client.get/post/put/delete(path, params)
ResourceCall(c, o, id, params) ==
    /\ client.state = "constructed"
    /\ calls[c].pc \in {"idle", "settled"}
    /\ calls' = [calls EXCEPT ![c] =
                   Enter([IdleCall EXCEPT !.op = o.key, !.method = o.method,
                                          !.path = PathOf(o, id),
                                          !.data = DataOf(o, params)],
                         ClientOf(ResourceOf(o)))]
    /\ UNCHANGED <<client, given>>

\* transactions.summary(arg) with an argument given
TransactionsSummary(c, arg) ==
    /\ client.state = "constructed"
    /\ calls[c].pc \in {"idle", "settled"}
    /\ LET o == OpOf("transactions.summary")
       IN  calls' = [calls EXCEPT ![c] =
                       Enter([IdleCall EXCEPT !.op = o.key, !.method = o.method,
                                              !.path = o.template, !.asked = arg,
                                              !.data = SummaryData(arg)],
                             ClientOf(ResourceOf(o)))]
    /\ UNCHANGED <<client, given>>

\* the largest maxRetries of a client whose resources are called
MaxRetriesRes == 1

ResConfigs ==
    {[secretKey |-> k, baseUrl |-> UndefinedUrl, timeout |-> UndefinedNum,
      maxRetries |-> Num(n)] : k \in {KeyLive, KeyTest, KeyOther}, n \in 0..MaxRetriesRes}

NextRes ==
    \/ \E config \in ResConfigs : Construct(config) /\ UNCHANGED seen
    \/ \E c \in MainCalls, o \in Operations, id \in Ids, params \in ResParams :
         ResourceCall(c, o, id, params) /\ UNCHANGED seen
    \/ \E c \in MainCalls, arg \in SummaryArgs :
         TransactionsSummary(c, arg) /\ UNCHANGED seen
    \/ \E c \in MainCalls, s \in Statuses : FetchResolves(c, s) /\ UNCHANGED seen
    \/ \E c \in MainCalls : FetchRejects(c) /\ UNCHANGED seen
    \/ \E c \in MainCalls : TimeoutFires(c) /\ UNCHANGED seen
    \/ \E c \in MainCalls, b \in Bodies : JsonSettles(c, b) /\ UNCHANGED seen
    \/ \E c \in MainCalls : SleepElapses(c) /\ UNCHANGED seen

SpecRes == Init /\ [][NextRes]_vars

-----------------------------------------------------------------------------
(* One call, with the kinds of failure it was retried after kept in seen *)

\* the largest maxRetries of a client whose failures are recorded
MaxRetriesMix == 3

MixConfigs ==
    {[secretKey |-> KeyTest, baseUrl |-> UndefinedUrl, timeout |-> UndefinedNum,
      maxRetries |-> Num(n)] : n \in 0..MaxRetriesMix}

\* why a call is sleeping: the retry of lines 100-103 after a 429/5xx response
\* ("status"), or the retry of lines 130-133 after fetch rejected
\* ("transport"), after response.json() threw ("parse"), after json.error of a
\* null body threw ("nullbody") or after JSON.stringify threw ("stringify")
FailureKind(r) ==
    IF r.last = "transport" THEN "transport"
    ELSE IF r.last = "stringify" THEN "stringify"
    ELSE IF r.body.kind = "unparseable" THEN "parse"
    ELSE IF r.status = 429 \/ r.status >= 500 THEN "status"
    ELSE "nullbody"

\* the failure is recorded when the step has sent the call to sleep
Note(c) ==
    seen' = [seen EXCEPT ![c] =
               IF calls'[c].pc = "sleeping" THEN @ \cup {FailureKind(calls'[c])} ELSE @]

NextMix ==
    \/ \E config \in MixConfigs : Construct(config) /\ UNCHANGED seen
    \/ \E c \in MainCalls, p \in Paths :
         Request(c, "POST", p, NoData) /\ seen' = [seen EXCEPT ![c] = {}]
    \/ \E c \in MainCalls, s \in Statuses : FetchResolves(c, s) /\ UNCHANGED seen
    \/ \E c \in MainCalls : FetchRejects(c) /\ Note(c)
    \/ \E c \in MainCalls : TimeoutFires(c) /\ UNCHANGED seen
    \/ \E c \in MainCalls, b \in Bodies : JsonSettles(c, b) /\ Note(c)
    \/ \E c \in MainCalls : SleepElapses(c) /\ UNCHANGED seen

SpecMix == Init /\ [][NextMix]_vars

-----------------------------------------------------------------------------
(* Properties *)

\* a status the retry policy covers: 429 or any 5xx
Retryable(status) == status = 429 \/ status >= 500

\* the call has thrown to its caller
Thrown(r) == r.pc = "settled" /\ r.outcome = "rejected"

\* the call's last attempt ended with a parsed or unparsed response body
ResponseRead(r) == r.last = "response" /\ r.body # NoBody

\* 1 time unit of the backoff, in ms
TimeUnit == 1000

\* C1: a call never makes more than maxRetries retries, and a failure whose
\* last attempt got a 429 or 5xx response is thrown only once maxRetries
\* retries have been made.
C1_RetriesUpToMax ==
    \A c \in CallIds :
        LET r == calls[c]
        IN  /\ r.retryCount <= client.maxRetries
            /\ Len(r.delays) <= client.maxRetries
            /\ (Thrown(r) /\ r.last = "response" /\ Retryable(r.status))
                 => (r.retryCount = client.maxRetries
                     /\ Len(r.delays) = client.maxRetries)

\* a 503 surfaced after three retries
C1_Witness ==
    \E c \in CallIds :
        /\ Thrown(calls[c]) /\ calls[c].last = "response" /\ calls[c].status = 503
        /\ calls[c].retryCount = 3 /\ calls[c].attempts = 4

\* C2: the i-th backoff sleep of a call, between the attempt with retryCount
\* i-1 and the next, lasts min(2^(i-1), 10) time units of 1000 ms.
C2_BackoffDelay ==
    \A c \in CallIds :
        \A i \in 1..Len(calls[c].delays) :
            calls[c].delays[i] = TimeUnit * Min(Pow2(i - 1), 10)

\* five sleeps: 1, 2, 4, 8 and, capped, 10 time units
C2_Witness ==
    \E c \in CallIds : calls[c].delays = <<1000, 2000, 4000, 8000, 10000>>

\* C3: a client exists, and a request is made, only for a key that starts
\* with sk_live_ or sk_test_; every other key makes the constructor throw.
C3_PrefixRequired ==
    /\ client.state = "constructed"
         => (StartsWith(client.secretKey, PrefixLive)
             \/ StartsWith(client.secretKey, PrefixTest))
    /\ (\E c \in CallIds : calls[c].pc # "idle")
         => (StartsWith(client.secretKey, PrefixLive)
             \/ StartsWith(client.secretKey, PrefixTest))

\* C4: for a constructed client isTestMode is true exactly for a key that
\* starts with sk_test_, and a client that is not in test mode holds a key
\* that starts with sk_live_.
C4_TestModeIffTestKey ==
    client.state = "constructed"
      => /\ IsTestMode(client) <=> StartsWith(client.secretKey, PrefixTest)
         /\ VaultixIsTestMode(client) <=> IsTestMode(client)
         /\ ~VaultixIsTestMode(client) => StartsWith(client.secretKey, PrefixLive)

\* C5: when the timeout timer of an attempt fires, the attempt is aborted and
\* the call fails with the timeout error (api_error, timeout, 408); the
\* attempt is not issued again and no backoff sleep is started.
C5_TimeoutError ==
    [][\A c \in CallIds :
         (calls[c].timer = "armed" /\ calls'[c].timer = "fired")
           => /\ Thrown(calls'[c])
              /\ calls'[c].error.class = "VaultixAPIError"
              /\ calls'[c].error.type = "api_error"
              /\ calls'[c].error.code = "timeout"
              /\ calls'[c].error.statusCode = Num(408)
              /\ calls'[c].error.ms = client.timeout
              /\ calls'[c].attempts = calls[c].attempts
              /\ calls'[c].delays = calls[c].delays]_vars

\* a retried call whose second attempt timed out
C5_Witness ==
    \E c \in CallIds :
        /\ calls[c].timer = "fired" /\ calls[c].last = "abort"
        /\ calls[c].error.code = "timeout" /\ calls[c].retryCount = 1

C7_NonRetryableSurfaces ==
    \A c \in CallIds :
        (ResponseRead(calls[c]) /\ ~Ok(calls[c].status) /\ ~Retryable(calls[c].status))
          => Thrown(calls[c])

\* C8: every rejection of a call is a VaultixAPIError with type, code,
\* message and statusCode.
C8_OneErrorType ==
    \A c \in CallIds :
        calls[c].outcome = "rejected"
          => /\ calls[c].error.class = "VaultixAPIError"
             /\ calls[c].error.type # ""
             /\ calls[c].error.code # ""
             /\ calls[c].error.message # ""
             /\ calls[c].error.statusCode.defined

\* C9: a call that failed on a non-2xx response throws an error with that
\* response's status and with the type, code, message and param of the
\* body's error object, or api_error / unknown_error when the body has none.
C9_ErrorMirrorsResponse ==
    \A c \in CallIds :
        LET r == calls[c]
        IN  (Thrown(r) /\ ResponseRead(r) /\ ~Ok(r.status))
              => /\ r.error.statusCode = Num(r.status)
                 /\ IF r.body.error.defined
                    THEN /\ r.error.type = r.body.error.type
                         /\ r.error.code = r.body.error.code
                         /\ r.error.message = r.body.error.message
                         /\ r.error.param = r.body.error.param
                    ELSE /\ r.error.type = "api_error"
                         /\ r.error.code = "unknown_error"

\* C10: a settled call has resolved with the body of a 2xx response or has
\* thrown an error, never both and never neither; a call whose last attempt
\* got a non-2xx response, failed in transport or timed out has not resolved.
C10_ResolvedOrThrown ==
    \A c \in CallIds :
        LET r == calls[c]
        IN  /\ r.pc = "settled" <=> r.outcome \in {"resolved", "rejected"}
            /\ r.outcome = "resolved"
                 => /\ r.last = "response" /\ Ok(r.status)
                    /\ r.body.kind \in {"object", "null"}
                    /\ r.value = r.body /\ r.error = NoError
            /\ r.outcome = "rejected" => (r.error # NoError /\ r.value = NoBody)
            /\ r.outcome = "pending" => (r.error = NoError /\ r.value = NoBody)

\* a call that resolved with the body of a 200 after two retries
C10_Witness ==
    \E c \in CallIds :
        /\ calls[c].outcome = "resolved" /\ calls[c].status = 200
        /\ calls[c].retryCount = 2 /\ calls[c].value = JsonObject(NoErr)

\* C11: a call has at most one HTTP attempt in flight and none while it
\* sleeps or once it has settled, it never makes more than maxRetries + 1
\* attempts, and a retry attempt is started only from the backoff sleep that
\* followed the completed previous attempt.
C11_SequentialBounded ==
    /\ [](\A c \in CallIds :
            /\ calls[c].inflight <= 1
            /\ calls[c].attempts <= client.maxRetries + 1
            /\ calls[c].pc \in {"idle", "sleeping", "settled"} => calls[c].inflight = 0)
    /\ [][\A c \in CallIds :
            (calls'[c].attempts # calls[c].attempts /\ calls'[c].retryCount > 0)
              => /\ calls[c].pc = "sleeping"
                 /\ calls[c].inflight = 0
                 /\ calls'[c].attempts = calls[c].attempts + 1
                 /\ calls'[c].retryCount = calls[c].retryCount + 1
                 /\ Len(calls[c].delays) = calls'[c].retryCount]_vars

\* the third attempt of a call in flight, after two sleeps
C11_Witness ==
    \E c \in CallIds :
        /\ calls[c].pc = "fetching" /\ calls[c].inflight = 1
        /\ calls[c].attempts = 3 /\ Len(calls[c].delays) = 2

\* C12: with two calls interleaved on one client, a step of one call (an
\* attempt, a retry, a timeout, a failure) leaves the other call's record
\* unchanged, and each call keeps its own retry counter, backoff delays and
\* timer: armed exactly while its own fetch is awaited.
C12_CallsIndependent ==
    /\ [][\A c, d \in CallIds :
            (c # d /\ calls'[c] # calls[c]) => calls'[d] = calls[d]]_vars
    /\ [](\A c \in CallIds :
            /\ calls[c].retryCount <= client.maxRetries
            /\ Len(calls[c].delays) =
                 calls[c].retryCount + (IF calls[c].pc = "sleeping" THEN 1 ELSE 0)
            /\ \A i \in 1..Len(calls[c].delays) :
                 calls[c].delays[i] = TimeUnit * Min(Pow2(i - 1), 10)
            /\ calls[c].timer = "armed" <=> calls[c].pc = "fetching")

\* one call has timed out on its first attempt while the other, started
\* before it, is awaiting its third attempt
C12_Witness ==
    /\ calls[1].pc = "fetching" /\ calls[1].retryCount = 2
    /\ calls[2].last = "abort" /\ Thrown(calls[2]) /\ calls[2].retryCount = 0

\* C13: once the client is constructed, no step of a call (request, response,
\* retry, timeout, failure) changes its secretKey, baseUrl, timeout or
\* maxRetries, nor any other field of the client.
C13_ConfigFixed ==
    [][client.state = "constructed"
         => /\ client'.secretKey = client.secretKey
            /\ client'.baseUrl = client.baseUrl
            /\ client'.timeout = client.timeout
            /\ client'.maxRetries = client.maxRetries
            /\ client' = client]_vars

\* a call that was retried twice and then timed out, on a client whose
\* configuration is still the one given
C13_Witness ==
    /\ client.state = "constructed"
    /\ client.maxRetries = 3 /\ client.timeout = 5000
    /\ \E c \in CallIds :
         /\ Thrown(calls[c]) /\ calls[c].last = "abort" /\ calls[c].retryCount = 2

\* C14: every request handed to fetch goes to the configured base URL, its
\* path component included, followed by the resource path.
C14_UnderBaseUrl ==
    \A c \in CallIds : \A i \in 1..Len(calls[c].requests) :
        /\ calls[c].requests[i].url.origin = client.baseUrl.origin
        /\ calls[c].requests[i].url.pathname = client.baseUrl.pathname \o calls[c].path

\* C15: every request handed to fetch, the first attempt and every retry,
\* carries Authorization: Bearer <secretKey> with the key the client was
\* constructed with, and one request is recorded per attempt.
C15_BearerOnEveryAttempt ==
    \A c \in CallIds :
        /\ Len(calls[c].requests) = calls[c].attempts
        /\ \A i \in 1..Len(calls[c].requests) :
             calls[c].requests[i].headers.authorization = Bearer \o client.secretKey

\* a call on a live-key client that has sent its first attempt and two retries
C15_Witness ==
    /\ client.secretKey = KeyLive
    /\ \E c \in CallIds :
         /\ Len(calls[c].requests) = 3 /\ calls[c].retryCount = 2
         /\ calls[c].requests[3].headers.authorization = Bearer \o KeyLive

\* C16: the resource methods and their endpoints correspond one to one: no two
\* methods share an HTTP method and path template, charges.capture is
\* POST /v1/charges/{id}/capture and customers.delete is
\* DELETE /v1/customers/{id}; a method's call is one executor call, started
\* with retry count 0, whose every request has the method and the instantiated
\* path of that method, and whose settlement is the method's own.
C16_OneEndpointPerOperation ==
    /\ Cardinality(Operations) = 43
    /\ \A o1, o2 \in Operations :
         (o1.key = o2.key \/ (o1.method = o2.method /\ o1.template = o2.template))
           => o1 = o2
    /\ OpOf("charges.capture").method = "POST"
    /\ OpOf("charges.capture").template = <<"v1", "charges", "{id}", "capture">>
    /\ OpOf("customers.delete").method = "DELETE"
    /\ OpOf("customers.delete").template = <<"v1", "customers", "{id}">>
    /\ \A c \in CallIds :
         calls[c].pc # "idle"
           => /\ \E o \in Operations :
                   /\ o.key = calls[c].op
                   /\ calls[c].method = o.method
                   /\ \E id \in Ids : calls[c].path = PathOf(o, id)
                   /\ o.arg = "none" => ~calls[c].data.given
                   /\ o.arg = "period" => calls[c].data = SummaryData(calls[c].asked)
              /\ Len(calls[c].requests) = calls[c].retryCount + 1
              /\ calls[c].attempts <= client.maxRetries + 1
              /\ \A i \in 1..Len(calls[c].requests) :
                   /\ calls[c].requests[i].method = calls[c].method
                   /\ calls[c].requests[i].url.pathname = calls[c].path
                   /\ calls[c].requests[i] = calls[c].requests[1]

\* charges.capture has been retried once and is awaiting its second POST to
\* /v1/charges/ch_1/capture
C16_Witness ==
    \E c \in CallIds :
        /\ calls[c].op = "charges.capture" /\ calls[c].pc = "fetching"
        /\ calls[c].retryCount = 1
        /\ calls[c].requests[2].method = "POST"
        /\ calls[c].requests[2].url.pathname = <<"v1", "charges", "ch_1", "capture">>

\* the methods of the Sandbox resource
SandboxKeys == {o.key : o \in SandboxOps}

C19_ExplicitValuesUsed ==
    client.state = "constructed"
      => /\ client.baseUrl = IF given.baseUrl.defined THEN given.baseUrl
                             ELSE DEFAULT_BASE_URL
         /\ client.timeout = IF given.timeout.defined THEN given.timeout.n
                             ELSE DEFAULT_TIMEOUT
         /\ client.maxRetries = IF given.maxRetries.defined THEN given.maxRetries.n
                                ELSE DEFAULT_MAX_RETRIES

\* C19, amended: what was left out gets its default (https://console.velon.app/api,
\* 30000 ms, 3 retries); a maxRetries given is used as given, 0 included; a
\* timeout or baseUrl given is used as given unless it is falsy (timeout 0,
\* the empty string), which gets the default as if left out.
C19_DefaultsAndExplicit ==
    client.state = "constructed"
      => /\ client.secretKey = given.secretKey
         /\ client.maxRetries = IF given.maxRetries.defined THEN given.maxRetries.n ELSE 3
         /\ client.timeout = IF given.timeout.defined /\ given.timeout.n # 0
                             THEN given.timeout.n ELSE 30000
         /\ client.baseUrl = IF given.baseUrl.defined /\ given.baseUrl # EmptyBaseUrl
                             THEN given.baseUrl
                             ELSE [defined |-> TRUE, valid |-> TRUE,
                                   origin |-> "https://console.velon.app",
                                   pathname |-> <<"api">>]

\* a client given maxRetries 0 and a timeout of 5000 ms has exactly these
C19_Witness ==
    /\ client.state = "constructed"
    /\ given.maxRetries = Num(0) /\ client.maxRetries = 0
    /\ given.timeout = Num(5000) /\ client.timeout = 5000
    /\ ~given.baseUrl.defined /\ client.baseUrl = DEFAULT_BASE_URL

\* C20: when fetch rejects with a transport failure, the call sleeps the
\* backoff delay of its retry count and retries if fewer than maxRetries
\* retries have been made; otherwise it throws a VaultixAPIError of type
\* api_error, code network_error and statusCode 0.
C20_TransportFailure ==
    \A c \in CallIds :
        calls[c].last = "transport"
          => \/ /\ calls[c].pc = "sleeping"
                /\ calls[c].retryCount < client.maxRetries
                /\ Len(calls[c].delays) = calls[c].retryCount + 1
                /\ calls[c].delays[Len(calls[c].delays)] =
                     TimeUnit * Min(Pow2(calls[c].retryCount), 10)
             \/ /\ Thrown(calls[c])
                /\ calls[c].retryCount = client.maxRetries
                /\ calls[c].attempts = client.maxRetries + 1
                /\ calls[c].error.class = "VaultixAPIError"
                /\ calls[c].error.type = "api_error"
                /\ calls[c].error.code = "network_error"
                /\ calls[c].error.statusCode = Num(0)

\* the transport failed on the first attempt and on each of three retries
C20_Witness ==
    /\ client.maxRetries = 3
    /\ \E c \in CallIds :
         /\ calls[c].last = "transport" /\ Thrown(calls[c])
         /\ calls[c].error.code = "network_error"
         /\ calls[c].delays = <<1000, 2000, 4000>>

\* C21: whatever mix of 429/5xx responses, transport failures and unparseable
\* bodies the attempts of one call meet, the call makes at most maxRetries + 1
\* HTTP attempts, one per value of its retry counter; a step of the call
\* either keeps the counter or, as the retry after a sleep, adds exactly 1 to
\* it and makes one more attempt; the counter is never lowered within a call.
C21_OneBudgetForAllFailures ==
    /\ [](\A c \in CallIds :
            /\ calls[c].attempts <= client.maxRetries + 1
            /\ calls[c].retryCount <= client.maxRetries
            /\ calls[c].pc # "idle" => calls[c].attempts = calls[c].retryCount + 1
            /\ Cardinality(seen[c]) <= calls[c].retryCount
                                         + (IF calls[c].pc = "sleeping" THEN 1 ELSE 0))
    /\ [][\A c \in CallIds :
            calls[c].pc \notin {"idle", "settled"}
              => \/ calls'[c].retryCount = calls[c].retryCount
                    /\ calls'[c].attempts = calls[c].attempts
                 \/ /\ calls[c].pc = "sleeping"
                    /\ calls'[c].retryCount = calls[c].retryCount + 1
                    /\ calls'[c].attempts = calls[c].attempts + 1]_vars

\* a call with maxRetries 3 was retried after a 5xx/429 response, after a
\* transport failure and after an unparseable body, and its fourth attempt
\* has failed for good
C21_Witness ==
    /\ client.maxRetries = 3
    /\ \E c \in CallIds :
         /\ seen[c] = {"status", "transport", "parse"}
         /\ calls[c].attempts = 4 /\ calls[c].retryCount = 3
         /\ Thrown(calls[c])

\* C22: once an attempt has received a 2xx response, the call makes no further
\* attempt: it is reading that response's body or has settled, and is not
\* sleeping towards a retry, whatever the body is.
C22_SuccessEndsCall ==
    \A c \in CallIds :
        (calls[c].last = "response" /\ Ok(calls[c].status))
          => calls[c].pc \in {"json", "settled"}

\* C23: the timeout covers the whole attempt: while the call awaits fetch or
\* awaits the parsing of the response body, its timeout timer is armed, so
\* that the timer's firing ends an attempt the server has stalled.
C23_TimeoutCoversBody ==
    \A c \in CallIds :
        calls[c].pc \in {"fetching", "json"} => calls[c].timer = "armed"

\* an entry of the payload whose value is neither undefined nor null
InQuery(e) == e.value.kind \notin {"undefined", "null"}

\* an entry of the payload that JSON keeps: every one but the undefined
InJson(e) == e.value.kind # "undefined"

\* C24: a GET sends its payload as query parameters only, one per entry whose
\* value is neither undefined nor null, and no body; a POST or PUT sends a
\* given payload as JSON body only, with no query parameter; a request
\* without payload has neither, and the delete helper passes no payload.
C24_PayloadPlacement ==
    /\ \A o \in Operations, p \in ResParams : o.via = "delete" => DataOf(o, p) = NoData
    /\ \A c \in CallIds : \A i \in 1..Len(calls[c].requests) :
         LET q == calls[c].requests[i]
             entries == calls[c].data.entries
             kept == SelectSeq(entries, InQuery)
             json == SelectSeq(entries, InJson)
         IN  /\ calls[c].method = "GET"
                  => /\ ~q.body.sent
                     /\ Len(q.url.search) = Len(kept)
                     /\ \A k \in 1..Len(kept) :
                          /\ q.url.search[k].key = kept[k].key
                          /\ q.url.search[k].value = kept[k].value.text
             /\ (calls[c].method \in {"POST", "PUT"} /\ calls[c].data.given)
                  => /\ q.body.sent
                     /\ q.url.search = <<>>
                     /\ Len(q.body.members) = Len(json)
                     /\ \A k \in 1..Len(json) :
                          /\ q.body.members[k].key = json[k].key
                          /\ q.body.members[k].value = json[k].value.text
             /\ ~calls[c].data.given => (~q.body.sent /\ q.url.search = <<>>)

\* a GET whose payload has a number, an undefined and a null entry was sent
\* with the one query parameter limit=10 and without body
C24_Witness ==
    \E c \in CallIds :
        /\ calls[c].method = "GET" /\ Len(calls[c].data.entries) = 3
        /\ Len(calls[c].requests) >= 1
        /\ calls[c].requests[1].url.search = <<[key |-> "limit", value |-> "10"]>>
        /\ ~calls[c].requests[1].body.sent

\* C25: all attempts of one call hand the same request to fetch: the method,
\* URL (query included), headers and body of every retry are those of the
\* first attempt, which are the ones the call's arguments determine; a call
\* sends it at most maxRetries + 1 times.
C25_RetriesResendSame ==
    \A c \in CallIds :
        /\ Len(calls[c].requests) <= client.maxRetries + 1
        /\ \A i \in 1..Len(calls[c].requests) :
             /\ calls[c].requests[i].method = calls[c].requests[1].method
             /\ calls[c].requests[i].url = calls[c].requests[1].url
             /\ calls[c].requests[i].headers = calls[c].requests[1].headers
             /\ calls[c].requests[i].body = calls[c].requests[1].body
             /\ calls[c].requests[i].method = calls[c].method
             /\ calls[c].requests[i].url.pathname = calls[c].path
             /\ calls[c].requests[i].body.sent
                  <=> (calls[c].method # "GET" /\ calls[c].data.given)

\* a POST with a JSON body was sent four times by a call with maxRetries 3
C25_Witness ==
    /\ client.maxRetries = 3
    /\ \E c \in CallIds :
         /\ calls[c].method = "POST" /\ Len(calls[c].requests) = 4
         /\ calls[c].requests[4].body.sent
         /\ calls[c].requests[4] = calls[c].requests[1]

\* C26: the backoff sleeps of a call sit between its attempts: a call that
\* has made n >= 1 attempts has slept n - 1 times, or n times while it is
\* sleeping towards attempt n + 1; none precedes the first attempt and none
\* follows the last; a sleep starts only from an attempt that has just failed
\* (or, for a call that never gets to send, from a failed try) and is followed
\* by the next try; the delays never decrease along the call and none exceeds
\* 10000 ms.
C26_SleepsBetweenAttempts ==
    /\ [](\A c \in CallIds :
            /\ Len(calls[c].delays) =
                 calls[c].retryCount + (IF calls[c].pc = "sleeping" THEN 1 ELSE 0)
            /\ calls[c].attempts >= 1
                 => Len(calls[c].delays) =
                      calls[c].attempts - 1 + (IF calls[c].pc = "sleeping" THEN 1 ELSE 0)
            /\ calls[c].attempts = 1 /\ calls[c].pc = "fetching" => calls[c].delays = <<>>
            /\ \A i \in 1..Len(calls[c].delays) :
                 /\ calls[c].delays[i] <= 10000
                 /\ i > 1 => calls[c].delays[i - 1] <= calls[c].delays[i])
    /\ [][\A c \in CallIds :
            /\ (calls[c].pc \notin {"idle", "settled"}
                  /\ Len(calls'[c].delays) # Len(calls[c].delays))
                 => /\ Len(calls'[c].delays) = Len(calls[c].delays) + 1
                    /\ calls'[c].pc = "sleeping"
                    /\ calls'[c].attempts > calls[c].attempts
                         \/ calls[c].pc \in {"fetching", "json"}
                         \/ calls[c].attempts = 0
            /\ calls[c].pc = "sleeping"
                 => (calls'[c] = calls[c] \/ calls'[c].retryCount = calls[c].retryCount + 1)]_vars

\* a call with maxRetries 5 that succeeded at its sixth attempt, after sleeps
\* of 1, 2, 4, 8 and 10 seconds
C26_Witness ==
    \E c \in CallIds :
        /\ calls[c].pc = "settled" /\ calls[c].outcome = "resolved"
        /\ calls[c].attempts = 6
        /\ calls[c].delays = <<1000, 2000, 4000, 8000, 10000>>

\* C27: on a client with maxRetries 0 a call never sleeps and never retries:
\* it makes at most one HTTP attempt, and exactly one once an attempt's
\* outcome (a response, a transport failure, a timeout) has come in.
C27_ZeroRetriesOneAttempt ==
    client.maxRetries = 0
      => \A c \in CallIds :
           /\ calls[c].attempts <= 1
           /\ calls[c].retryCount = 0
           /\ calls[c].delays = <<>>
           /\ calls[c].pc # "sleeping"
           /\ calls[c].last \in {"response", "transport", "abort"}
                => /\ calls[c].attempts = 1
                   /\ Len(calls[c].requests) = 1
           /\ (calls[c].last \in {"transport", "abort"}
                 \/ (ResponseRead(calls[c]) /\ ~Ok(calls[c].status)))
                => Thrown(calls[c])

\* with maxRetries given as 0, a 503 answered to the only attempt is thrown
C27_Witness ==
    /\ client.state = "constructed" /\ client.maxRetries = 0
    /\ \E c \in CallIds :
         /\ Thrown(calls[c]) /\ calls[c].status = 503 /\ calls[c].last = "response"
         /\ calls[c].attempts = 1 /\ calls[c].delays = <<>>

\* C28: the eleven resources of a Vaultix instance all hold the one client
\* built from the constructor's configuration: every request of every
\* resource method carries that client's key and goes to its base URL's
\* origin, is retried within its maxRetries and times out with its timeout,
\* and Vaultix.isTestMode is that client's isTestMode.
C28_OneClientForAll ==
    /\ Cardinality(Resources) = 11
    /\ {ResourceOf(o) : o \in Operations} = Resources
    /\ \A res \in Resources : ClientOf(res) = client
    /\ VaultixIsTestMode(client) = IsTestMode(client)
    /\ client.state = "constructed"
         => \E config \in ResConfigs : client = NewVaultixClient(config)
    /\ \A c \in CallIds :
         calls[c].pc # "idle"
           => /\ calls[c].retryCount <= client.maxRetries
              /\ calls[c].error.code = "timeout" => calls[c].error.ms = client.timeout
              /\ \A i \in 1..Len(calls[c].requests) :
                   /\ calls[c].requests[i].headers.authorization
                        = Bearer \o client.secretKey
                   /\ calls[c].requests[i].url.origin = client.baseUrl.origin

\* sandbox.testWebhook, on an instance built with a live key and maxRetries 1,
\* has sent its request twice with that key to the default host
C28_Witness ==
    /\ client.secretKey = KeyLive /\ client.maxRetries = 1
    /\ ~VaultixIsTestMode(client)
    /\ \E c \in CallIds :
         /\ calls[c].op = "sandbox.testWebhook" /\ Len(calls[c].requests) = 2
         /\ calls[c].requests[2].headers.authorization = Bearer \o KeyLive
         /\ calls[c].requests[2].url.origin = "https://console.velon.app"

\* C29: every request of transactions.summary is a GET of
\* /v1/transactions/summary whose one query parameter is period, with the
\* period the caller asked for, or 30d when the caller gave none.
C29_SummaryPeriod ==
    \A c \in CallIds :
        (calls[c].op = "transactions.summary" /\ calls[c].pc # "idle")
          => \A i \in 1..Len(calls[c].requests) :
               /\ calls[c].requests[i].method = "GET"
               /\ calls[c].requests[i].url.pathname = <<"v1", "transactions", "summary">>
               /\ calls[c].requests[i].url.search =
                    <<[key |-> "period",
                       value |-> IF calls[c].asked.form = "undefined" THEN "30d"
                                 ELSE calls[c].asked.period]>>

\* C30: a call's timeout timer is armed exactly while the call awaits fetch:
\* each attempt arms it anew, from a state in which none is armed, and every
\* way out of the await (a response, a transport failure, the abort) leaves
\* it cleared or fired, before the body is read, before the backoff sleep and
\* before the call settles.
C30_TimerHygiene ==
    /\ [](\A c \in CallIds :
            /\ calls[c].timer = "armed" <=> calls[c].pc = "fetching"
            /\ calls[c].pc \in {"json", "sleeping", "settled"} => calls[c].timer # "armed"
            /\ calls[c].attempts >= 1 => calls[c].timer # "none"
            /\ calls[c].timer = "fired" => (Thrown(calls[c]) /\ calls[c].last = "abort"))
    /\ [][\A c \in CallIds :
            /\ (calls'[c].attempts = calls[c].attempts + 1 /\ calls[c].attempts >= 1)
                 => /\ calls[c].timer \in {"cleared", "fired"}
                    /\ calls'[c].timer = "armed"
            /\ (calls[c].pc = "fetching" /\ calls'[c].pc # "fetching")
                 => calls'[c].timer \in {"cleared", "fired"}]_vars

\* after a transport failure of its second attempt the call sleeps with its
\* timer cleared
C30_Witness ==
    \E c \in CallIds :
        /\ calls[c].pc = "sleeping" /\ calls[c].last = "transport"
        /\ calls[c].attempts = 2 /\ calls[c].timer = "cleared"

=============================================================================
